---- MODULE Spec2Model ----
(***************************************************************************)
(* Model of Eight_Puzzle_Problem.py: an A* search for the 8-puzzle.        *)
(*                                                                         *)
(* Grids are Python lists of row lists; here a grid value is a sequence of *)
(* rows, each a sequence of integers.  Python indices are 0-based, so cell *)
(* state[i][j] of the source is state[i+1][j+1] here.  Grid objects live   *)
(* in the store `heap` and are referred to by their index, so that         *)
(* aliasing and in-place mutation can be expressed.                        *)
(***************************************************************************)
EXTENDS Integers, Sequences, FiniteSets, TLC

VARIABLES heap, nodes, open_list, closed_list, pc, outcome, path, printed,
          arg, ret, pops

\* pops records the nodes returned by heappop, in order: the successive
\* values of current_node at line 85.
vars == <<heap, nodes, open_list, closed_list, pc, outcome, path, printed,
          arg, ret, pops>>

solver_vars == <<heap, nodes, open_list, closed_list, pc, outcome, path, printed,
                 pops>>

(* ------------------------------ bounds --------------------------------- *)

\* Initial grids of the solver are the grids at most this many moves away
\* from the goal grid (plus the malformed inputs below).
SearchRadius == 3

\* Depth to which the reference breadth-first search is run when a grid
\* function is checked on its own.
DistBound == 2

\* Depth to which the reference breadth-first search from the initial grid
\* is run to find the least number of moves to a popped grid.
DepthCap == 10

(* --------------------------- program constants ------------------------- *)

goal_state == << <<2, 3, 4>>, <<7, 0, 1>>, <<8, 5, 6>> >>

\* The goal grid with two tiles exchanged: the other parity class.
TwinGoal == << <<3, 2, 4>>, <<7, 0, 1>>, <<8, 5, 6>> >>

\* Variant: the first two moves are listed in the other order.
moves_up_first == << <<-1, 0>>, <<1, 0>>, <<0, 1>>, <<0, -1>> >>

moves == << <<1, 0>>, <<-1, 0>>, <<0, 1>>, <<0, -1>> >>

None == << >>

\* Object identities of the two module-level grids.
GoalId == 1
InitId == 2

(* ------------------------------ helpers -------------------------------- *)

abs(x) == IF x < 0 THEN -x ELSE x

\* The element of a one-element set.  The({e(x) : x \in {v}}) is e(v) with
\* v evaluated once, which is how the loops below carry their variables.
The(S) == CHOOSE x \in S : TRUE

Cells == (0..2) \X (0..2)

\* state[i][j] of the source.
At(state, i, j) == state[i + 1][j + 1]

\* state[i][j] raises IndexError for some cell of the 3x3 scan.
ScanRaises(state) ==
    \E i \in 0..2 :
        IF i >= Len(state) THEN TRUE ELSE \E j \in 0..2 : j >= Len(state[i + 1])

\* tuple(map(tuple, state)): the grid by value.
AsTuple(state) == state

(* --------------------------- manhattan_distance ------------------------ *)

\* Variant: the test for the blank is missing, so the blank is measured
\* like a tile (divmod(-1, 3) is (-1, 2)).
TileDistanceCountingBlank(state, i, j) ==
    LET x == (At(state, i, j) - 1) \div 3
        y == (At(state, i, j) - 1) % 3
    IN  abs(x - i) + abs(y - j)

TileDistance(state, i, j) ==
    IF At(state, i, j) # 0
    THEN LET x == (At(state, i, j) - 1) \div 3
             y == (At(state, i, j) - 1) % 3
         IN  abs(x - i) + abs(y - j)
    ELSE 0

RECURSIVE SumCells(_, _)
SumCells(state, k) ==
    IF k = 9 THEN 0
    ELSE TileDistance(state, k \div 3, k % 3) + SumCells(state, k + 1)

manhattan_distance(state) == SumCells(state, 0)

(* --------------------------- get_blank_position ------------------------ *)

RECURSIVE FindBlank(_, _)
FindBlank(state, k) ==
    IF k = 9 THEN None
    ELSE IF At(state, k \div 3, k % 3) = 0 THEN <<k \div 3, k % 3>>
    ELSE FindBlank(state, k + 1)

get_blank_position(state) == FindBlank(state, 0)

(* ------------------------------ get_neighbors -------------------------- *)

\* Variant: the target cell is addressed with its indices exchanged.
SwapCellsTransposed(state, i, j, ni, nj) ==
    [r \in 1..Len(state) |->
        [c \in 1..Len(state[r]) |->
            IF r = i + 1 /\ c = j + 1 THEN At(state, nj, ni)
            ELSE IF r = nj + 1 /\ c = ni + 1 THEN At(state, i, j)
            ELSE state[r][c]]]

\* new_state = deepcopy(state); swap cells (i,j) and (ni,nj).
SwapCells(state, i, j, ni, nj) ==
    [r \in 1..Len(state) |->
        [c \in 1..Len(state[r]) |->
            IF r = i + 1 /\ c = j + 1 THEN At(state, ni, nj)
            ELSE IF r = ni + 1 /\ c = nj + 1 THEN At(state, i, j)
            ELSE state[r][c]]]

\* Variant: the lower row bound is strict, so row 0 is never entered.
InBoundsStrictRow(ni, nj) == 0 < ni /\ ni < 3 /\ 0 <= nj /\ nj < 3

InBounds(ni, nj) == 0 <= ni /\ ni < 3 /\ 0 <= nj /\ nj < 3

RECURSIVE NeighborLoop(_, _, _, _)
NeighborLoop(state, i, j, m) ==
    IF m > Len(moves) THEN << >>
    ELSE LET new_i == i + moves[m][1]
             new_j == j + moves[m][2]
         IN  IF InBounds(new_i, new_j)
             THEN <<SwapCells(state, i, j, new_i, new_j)>>
                    \o NeighborLoop(state, i, j, m + 1)
             ELSE NeighborLoop(state, i, j, m + 1)

\* `i, j = get_blank_position(state)` raises TypeError when there is no blank.
NeighborsRaise(state) == get_blank_position(state) = None

get_neighbors(state) ==
    LET pos == get_blank_position(state)
    IN  NeighborLoop(state, pos[1], pos[2], 1)

(* ------------------------------ PuzzleNode ----------------------------- *)

\* Node objects live in `nodes`; a node is referred to by its index and
\* parent = 0 stands for parent = None.
PuzzleNode(state, parent, g, h) ==
    [state |-> state, parent |-> parent, g |-> g, h |-> h]

\* Variant: the cost so far is left out of the comparison (greedy search).
lt_h_only(ns, a, b) == ns[a].h < ns[b].h

\* Variant: the node with the larger cost so far compares smaller, so the
\* frontier is searched depth first.
lt_deepest_first(ns, a, b) == ns[a].g > ns[b].g

\* PuzzleNode.__lt__ on the nodes with indices a and b.
lt(ns, a, b) == (ns[a].g + ns[a].h) < (ns[b].g + ns[b].h)

(* ------------------------- heapq.heappush / heappop -------------------- *)

\* heapq keeps the list as an implicit binary tree, 0-based; position p of
\* the source is h[p + 1] here.
RECURSIVE SiftdownLoop(_, _, _, _, _)
SiftdownLoop(ns, h, startpos, pos, newitem) ==
    IF pos > startpos /\ lt(ns, newitem, h[((pos - 1) \div 2) + 1])
    THEN The({SiftdownLoop(ns, x[1], startpos, x[2], newitem) :
                x \in {<<[h EXCEPT ![pos + 1] = h[((pos - 1) \div 2) + 1]],
                         (pos - 1) \div 2>>}})
    ELSE [h EXCEPT ![pos + 1] = newitem]

siftdown(ns, h, startpos, pos) == SiftdownLoop(ns, h, startpos, pos, h[pos + 1])

\* Variant: the left child is moved up without looking at the right one.
SmallerChildLeft(ns, h, pos) == 2 * pos + 1

\* The child of position pos that _siftup moves up: the right one unless
\* the left one is smaller.
SmallerChild(ns, h, pos) ==
    IF 2 * pos + 2 < Len(h) /\ ~lt(ns, h[2 * pos + 2], h[2 * pos + 3])
    THEN 2 * pos + 2 ELSE 2 * pos + 1

RECURSIVE SiftupLoop(_, _, _, _, _)
SiftupLoop(ns, h, startpos, pos, newitem) ==
    IF 2 * pos + 1 < Len(h)
    THEN The({SiftupLoop(ns, x[1], startpos, x[2], newitem) :
                x \in {<<[h EXCEPT ![pos + 1] = h[SmallerChild(ns, h, pos) + 1]],
                         SmallerChild(ns, h, pos)>>}})
    ELSE The({siftdown(ns, x, startpos, pos) :
                x \in {[h EXCEPT ![pos + 1] = newitem]}})

siftup(ns, h, pos) == SiftupLoop(ns, h, pos, pos, h[pos + 1])

heappush(ns, h, item) ==
    The({siftdown(ns, x, 0, Len(h)) : x \in {Append(h, item)}})

\* Returns the popped item and the list that remains.
heappop(ns, h) ==
    IF Len(h) > 1
    THEN [item |-> h[1],
          list |-> The({siftup(ns, x, 0) :
                          x \in {[SubSeq(h, 1, Len(h) - 1) EXCEPT ![1] = h[Len(h)]]}})]
    ELSE [item |-> h[Len(h)], list |-> << >>]

(* ----------------------- reference breadth-first search ---------------- *)

Adjacent(p, q) == abs(p[1] - q[1]) + abs(p[2] - q[2]) = 1

\* b is a with the blank at cell p exchanged with the tile at the adjacent
\* cell q, the other seven cells being the same.
BlankSwap(a, b, p, q) ==
    /\ Adjacent(p, q)
    /\ At(a, p[1], p[2]) = 0 /\ At(b, q[1], q[2]) = 0
    /\ At(b, p[1], p[2]) = At(a, q[1], q[2])
    /\ \A c \in Cells \ {p, q} : At(b, c[1], c[2]) = At(a, c[1], c[2])

\* One legal move of the puzzle, for two 3x3 grids.
OneBlankMove(a, b) == \E p \in Cells : \E q \in Cells : BlankSwap(a, b, p, q)

\* The grids one legal move away from the 3x3 grid a.
LegalMoves(a) ==
    {[r \in 1..3 |-> [c \in 1..3 |->
         IF <<r - 1, c - 1>> = pq[1] THEN At(a, pq[2][1], pq[2][2])
         ELSE IF <<r - 1, c - 1>> = pq[2] THEN 0
         ELSE a[r][c]]] :
       pq \in {x \in Cells \X Cells : Adjacent(x[1], x[2])
                                        /\ At(a, x[1][1], x[1][2]) = 0}}

Successors(S) == UNION {LegalMoves(s) : s \in S}

\* Least number of legal moves from a grid of `frontier` to `target`,
\* searched to depth maxd; -1 when `target` is further away or unreachable.
RECURSIVE BfsDepth(_, _, _, _, _)
BfsDepth(frontier, seen, target, d, maxd) ==
    IF target \in frontier THEN d
    ELSE IF d = maxd \/ frontier = {} THEN -1
    ELSE BfsDepth(Successors(frontier) \ seen, seen \cup Successors(frontier),
                  target, d + 1, maxd)

MinMoves(from, target, maxd) == BfsDepth({from}, {from}, target, 0, maxd)

\* The grids at most r legal moves away from the grids of S.
RECURSIVE Ball(_, _)
Ball(S, r) == IF r = 0 THEN S ELSE Ball(S \cup Successors(S), r - 1)

Is3x3(state) == Len(state) = 3 /\ \A r \in 1..3 : Len(state[r]) = 3

GoalReachable(state) ==
    Is3x3(state) /\ MinMoves(state, goal_state, SearchRadius) >= 0

(* ------------------------------- inputs -------------------------------- *)

\* A 3x3 arrangement containing each of 0..8 exactly once.
IsValidGrid(state) ==
    /\ Is3x3(state)
    /\ \A v \in 0..8 : Cardinality({c \in Cells : At(state, c[1], c[2]) = v}) = 1

\* Duplicate tiles and missing values, with a blank.
DuplicateGrid == << <<1, 1, 1>>, <<1, 0, 1>>, <<1, 1, 1>> >>
\* An out-of-range value, with a blank in a corner.
OutOfRangeGrid == << <<0, 9, 9>>, <<9, 9, 9>>, <<9, 9, 9>> >>
\* No blank at all.
NoBlankGrid == << <<1, 1, 1>>, <<1, 2, 1>>, <<1, 1, 1>> >>
\* Wrong dimensions: two rows only.
ShortGrid == << <<2, 3, 4>>, <<7, 0, 1>> >>

MalformedInputs == {DuplicateGrid, OutOfRangeGrid, NoBlankGrid, ShortGrid}

SolvableInputs == Ball({goal_state}, SearchRadius)

Inputs == SolvableInputs \cup MalformedInputs

(* ------------------------------ solve_puzzle --------------------------- *)

\* current_node.state == goal_state (line 87): list equality, by value.
IsGoal(hp, id) == hp[id] = hp[GoalId]

\* closed_list.add(tuple(map(tuple, state)))
AddClosed(closed, state) == closed \cup {AsTuple(state)}

\* Variant: the new node is linked to the parent of the expanded node.
NeighborNodeGrandparent(hp, ns, cur, id) ==
    PuzzleNode(id, ns[cur].parent, ns[cur].g + 1, manhattan_distance(hp[id]))

\* Variant: the new node takes over the cost of its parent.
NeighborNodeSameCost(hp, ns, cur, id) ==
    PuzzleNode(id, cur, ns[cur].g, manhattan_distance(hp[id]))

\* Line 98: the node created for the neighbor object id of node cur.
NeighborNode(hp, ns, cur, id) ==
    PuzzleNode(id, cur, ns[cur].g + 1, manhattan_distance(hp[id]))

\* Variant: no deep copy, the swap is done on the rows of the argument,
\* which ends up holding the last neighbor.
StoreNeighborsInPlace(hp, id) ==
    LET nb == get_neighbors(hp[id])
    IN  [hp EXCEPT ![id] = nb[Len(nb)]] \o nb

\* Grid objects created by get_neighbors: each neighbor is a deep copy, a
\* fresh object appended to the store; the argument object is left alone.
StoreNeighbors(hp, id) == hp \o get_neighbors(hp[id])

\* Lines 98-99: a node is created for the neighbor object id and pushed;
\* st holds the node store and the frontier.
PushNeighbor(hp, st, cur, id) ==
    The({[nodes |-> ns2, open_list |-> heappush(ns2, st.open_list, Len(ns2))] :
           ns2 \in {Append(st.nodes, NeighborNode(hp, st.nodes, cur, id))}})

\* The loop `for neighbor_state in get_neighbors(...)`: neighbor k of n is
\* the object first + k; it is pushed unless its grid is closed.
RECURSIVE PushLoop(_, _, _, _, _, _, _)
PushLoop(hp, st, closed, cur, first, k, n) ==
    IF k > n THEN st
    ELSE The({PushLoop(hp, st2, closed, cur, first, k + 1, n) :
                st2 \in {IF AsTuple(hp[first + k]) \notin closed
                         THEN PushNeighbor(hp, st, cur, first + k)
                         ELSE st}})

\* Variant: the walk stops at the root instead of after it.
RECURSIVE WalkParentsStopAtRoot(_, _)
WalkParentsStopAtRoot(ns, n) ==
    IF ns[n].parent = 0 THEN << >>
    ELSE <<ns[n].state>> \o WalkParentsStopAtRoot(ns, ns[n].parent)

\* while current_node: path.append(current_node.state); current_node = parent
RECURSIVE WalkParents(_, _)
WalkParents(ns, n) ==
    IF n = 0 THEN << >> ELSE <<ns[n].state>> \o WalkParents(ns, ns[n].parent)

Reverse(s) == [k \in 1..Len(s) |-> s[Len(s) + 1 - k]]

\* Variant: the path is returned leaf first.
ReconstructPathUnreversed(ns, n) == WalkParents(ns, n)

\* path[::-1]
ReconstructPath(ns, n) == Reverse(WalkParents(ns, n))

\* Lines 80-82, when manhattan_distance(initial_state) returns.
Start ==
    /\ pc = "start"
    /\ ~ScanRaises(heap[InitId])
    /\ nodes' = <<PuzzleNode(InitId, 0, 0, manhattan_distance(heap[InitId]))>>
    /\ open_list' = <<1>>
    /\ closed_list' = {}
    /\ pc' = "loop"
    /\ UNCHANGED <<heap, outcome, path, printed, arg, ret, pops>>

\* Line 80 on a grid with fewer than 3 rows or columns: IndexError.
StartRaises ==
    /\ pc = "start"
    /\ ScanRaises(heap[InitId])
    /\ outcome' = "IndexError"
    /\ pc' = "raised"
    /\ UNCHANGED <<heap, nodes, open_list, closed_list, path, printed, arg, ret, pops>>

\* Lines 84-92: the popped node holds the goal grid.
ReturnPath ==
    /\ pc = "loop"
    /\ open_list # << >>
    /\ \E popped \in {heappop(nodes, open_list)} :
          /\ IsGoal(heap, nodes[popped.item].state)
          /\ open_list' = popped.list
          /\ pops' = Append(pops, popped.item)
          /\ path' = ReconstructPath(nodes, popped.item)
    /\ outcome' = "path"
    /\ pc' = "returned"
    /\ UNCHANGED <<heap, nodes, closed_list, printed, arg, ret>>

\* Lines 84-99: the popped node is not the goal; it is closed and expanded.
Expand ==
    /\ pc = "loop"
    /\ open_list # << >>
    /\ \E popped \in {heappop(nodes, open_list)} :
          /\ ~IsGoal(heap, nodes[popped.item].state)
          /\ ~NeighborsRaise(heap[nodes[popped.item].state])
          /\ \E closed \in {AddClosed(closed_list, heap[nodes[popped.item].state])} :
             \E hp \in {StoreNeighbors(heap, nodes[popped.item].state)} :
             \E pushed \in {PushLoop(hp, [nodes |-> nodes, open_list |-> popped.list],
                                     closed, popped.item, Len(heap), 1,
                                     Len(hp) - Len(heap))} :
                /\ closed_list' = closed
                /\ heap' = hp
                /\ nodes' = pushed.nodes
                /\ open_list' = pushed.open_list
                /\ pops' = Append(pops, popped.item)
    /\ UNCHANGED <<pc, outcome, path, printed, arg, ret>>

\* Lines 84-96 on a grid without a blank: the node is popped and closed,
\* then get_neighbors fails to unpack None: TypeError.
ExpandRaises ==
    /\ pc = "loop"
    /\ open_list # << >>
    /\ \E popped \in {heappop(nodes, open_list)} :
          /\ ~IsGoal(heap, nodes[popped.item].state)
          /\ NeighborsRaise(heap[nodes[popped.item].state])
          /\ open_list' = popped.list
          /\ pops' = Append(pops, popped.item)
          /\ closed_list' = AddClosed(closed_list, heap[nodes[popped.item].state])
    /\ outcome' = "TypeError"
    /\ pc' = "raised"
    /\ UNCHANGED <<heap, nodes, path, printed, arg, ret>>

\* Line 101: the frontier is empty.
ReturnNone ==
    /\ pc = "loop"
    /\ open_list = << >>
    /\ outcome' = "None"
    /\ pc' = "returned"
    /\ UNCHANGED <<heap, nodes, open_list, closed_list, path, printed, arg, ret, pops>>

\* Lines 115-125: `if solution:` is true of a non-empty list only.
Report ==
    /\ pc = "returned"
    /\ printed' = IF outcome = "path" /\ path # << >>
                  THEN "Solution steps:" ELSE "No solution found."
    /\ pc' = "done"
    /\ UNCHANGED <<heap, nodes, open_list, closed_list, outcome, path, arg, ret, pops>>

Init ==
    /\ \E initial_state \in Inputs : heap = <<goal_state, initial_state>>
    /\ nodes = << >>
    /\ open_list = << >>
    /\ closed_list = {}
    /\ pc = "start"
    /\ outcome = "running"
    /\ path = << >>
    /\ printed = ""
    /\ arg = goal_state
    /\ ret = << >>
    /\ pops = << >>

Next ==
    \/ Start
    \/ StartRaises
    \/ ReturnPath
    \/ Expand
    \/ ExpandRaises
    \/ ReturnNone
    \/ Report

Spec == Init /\ [][Next]_vars

\* The interpreter runs the program to completion: a step that can be
\* taken is taken.
FairSpec == Spec /\ WF_vars(Next)

(* -------------------- the grid functions on their own ------------------ *)

\* arg ranges over every arrangement of 0..8 (both parity classes), and
\* ret is what get_neighbors returned for it.
GridInit ==
    /\ arg \in {goal_state, TwinGoal}
    /\ ret = get_neighbors(arg)
    /\ heap = <<goal_state, goal_state>>
    /\ nodes = << >>
    /\ open_list = << >>
    /\ closed_list = {}
    /\ pc = "grid"
    /\ outcome = "running"
    /\ path = << >>
    /\ printed = ""
    /\ pops = << >>

\* One legal move: the next argument is one of the neighbors returned.
CallNeighbors ==
    /\ pc = "grid"
    /\ \E k \in 1..Len(ret) :
          /\ arg' = ret[k]
          /\ ret' = get_neighbors(ret[k])
    /\ UNCHANGED solver_vars

GridNext == CallNeighbors

GridSpec == GridInit /\ [][GridNext]_vars

(* ------------------------------- claims -------------------------------- *)

PathGrid(k) == heap[path[k]]

\* C1: from every initial grid from which the goal grid can be reached by
\* legal blank moves, solve_puzzle terminates and returns a sequence of
\* grids whose first element is the initial grid and whose last element is
\* the goal grid.
C1_SolvableReturnsPath ==
    GoalReachable(heap[InitId])
      ~> (/\ outcome = "path"
          /\ path # << >>
          /\ PathGrid(1) = heap[InitId]
          /\ PathGrid(Len(path)) = goal_state)

C1_Witness ==
    /\ outcome = "path"
    /\ Len(path) = SearchRadius + 1
    /\ GoalReachable(heap[InitId])
    /\ PathGrid(1) = heap[InitId]
    /\ PathGrid(Len(path)) = goal_state

\* C2: in a returned sequence, consecutive grids differ by exactly one swap
\* of the blank with a horizontally or vertically adjacent tile, the other
\* seven cells being identical.
C2_StepsAreLegalMoves ==
    outcome = "path" =>
        \A k \in 1..(Len(path) - 1) : OneBlankMove(PathGrid(k), PathGrid(k + 1))

C2_Witness ==
    /\ outcome = "path"
    /\ Len(path) >= 3
    /\ \A k \in 1..(Len(path) - 1) : OneBlankMove(PathGrid(k), PathGrid(k + 1))

\* C3: for a solvable initial grid, the length of the returned sequence
\* minus one is the least number of legal moves from the initial grid to
\* the goal grid, as a breadth-first search finds it.
C3_PathIsShortest ==
    (outcome = "path" /\ GoalReachable(heap[InitId])) =>
        Len(path) - 1 = MinMoves(heap[InitId], goal_state, SearchRadius)

C3_Witness ==
    /\ outcome = "path"
    /\ Len(nodes) > 2 * Len(path)
    /\ Len(path) - 1 = SearchRadius
    /\ MinMoves(heap[InitId], goal_state, SearchRadius) = SearchRadius

\* C5: manhattan_distance of the program's goal grid is 0.
C5_GoalHeuristicIsZero ==
    (pc = "grid" /\ arg = goal_state) => manhattan_distance(arg) = 0

\* C6: admissibility: for a grid from which the goal grid can be reached,
\* manhattan_distance is at most the least number of legal moves to the
\* goal grid.
C6_HeuristicAdmissible ==
    pc = "grid" =>
        LET d == MinMoves(arg, goal_state, DistBound)
        IN  d >= 0 => manhattan_distance(arg) <= d

BlankCell(state) == CHOOSE c \in Cells : At(state, c[1], c[2]) = 0

IsCorner(c) == c[1] # 1 /\ c[2] # 1
IsCenter(c) == c[1] = 1 /\ c[2] = 1

\* C7: for a valid grid, get_neighbors returns 2 grids when the blank is in
\* a corner, 3 when it is on a non-corner edge cell and 4 when it is in the
\* center, and every returned grid is a 3x3 arrangement of 0..8.
C7_NeighborCount ==
    (pc = "grid" /\ IsValidGrid(arg)) =>
        /\ Len(ret) = (IF IsCorner(BlankCell(arg)) THEN 2
                       ELSE IF IsCenter(BlankCell(arg)) THEN 4 ELSE 3)
        /\ \A k \in 1..Len(ret) : IsValidGrid(ret[k])

C7_Witness ==
    /\ pc = "grid"
    /\ arg \notin {goal_state, TwinGoal}
    /\ IsValidGrid(arg)
    /\ BlankCell(arg) = <<0, 1>>
    /\ Len(ret) = 3
    /\ \A k \in 1..Len(ret) : IsValidGrid(ret[k])

\* C8: given a grid that is not a 3x3 arrangement of 0..8, solve_puzzle
\* reports InvalidGridError at entry, before any node is popped or
\* expanded, and never returns a path or the no-solution outcome.
C8_MalformedRejectedAtEntry ==
    (pc # "grid" /\ ~IsValidGrid(heap[InitId])) =>
        \/ pc = "start"
        \/ outcome = "InvalidGridError" /\ nodes = << >> /\ closed_list = {}

\* C9: a successful result is a non-empty sequence (the one-element
\* sequence of the initial grid when that grid is the goal grid), so the
\* caller's check never takes it for the no-solution outcome.
C9_SuccessIsNonEmpty ==
    /\ outcome = "path" => path # << >>
    /\ (outcome = "path" /\ heap[InitId] = goal_state) => path = <<InitId>>
    /\ pc = "done" => /\ outcome = "path" <=> printed = "Solution steps:"
                      /\ outcome = "None" <=> printed = "No solution found."

C9_Witness ==
    /\ pc = "done"
    /\ outcome = "path"
    /\ heap[InitId] = goal_state
    /\ path = <<InitId>>
    /\ printed = "Solution steps:"

NodeGrids(ns) == {ns[n].state : n \in DOMAIN ns}

\* C10: grids are never mutated in place: get_neighbors leaves its argument
\* unchanged and returns independent grids, and during a run the initial
\* grid, the goal grid and the grid of every node keep their contents.
C10_GridsNeverMutated ==
    [][pc # "grid" =>
         /\ \A id \in DOMAIN heap : id \in DOMAIN heap' /\ heap'[id] = heap[id]
         /\ \A n \in DOMAIN nodes : n \in DOMAIN nodes' /\ nodes'[n] = nodes[n]
         /\ \A n \in DOMAIN nodes' \ DOMAIN nodes :
               /\ nodes'[n].parent # 0 => nodes'[n].state \notin DOMAIN heap
               /\ \A m \in DOMAIN nodes' \ {n} : nodes'[m].state # nodes'[n].state
    ]_vars

C10_Witness ==
    /\ pc = "loop"
    /\ Len(nodes) >= 4
    /\ Len(heap) >= 5
    /\ heap[GoalId] = goal_state
    /\ heap[InitId] \in SolvableInputs \ {goal_state}
    /\ Cardinality(NodeGrids(nodes)) = Len(nodes)

Range(s) == {s[k] : k \in 1..Len(s)}

\* f = g + h of the node with index n.
F(n) == nodes[n].g + nodes[n].h

NodeGrid(n) == heap[nodes[n].state]

LastPop == pops[Len(pops)]

\* In a step that pops, the node popped is in the frontier and no frontier
\* node has a smaller f.
PopsMinimalF ==
    pops' # pops =>
        /\ pops'[Len(pops')] \in Range(open_list)
        /\ \A m \in Range(open_list) : F(pops'[Len(pops')]) <= F(m)

\* Nodes are numbered in the order they are created and pushed.
PopsEarliestOfTies ==
    pops' # pops =>
        \A m \in Range(open_list) :
            F(m) = F(pops'[Len(pops')]) => pops'[Len(pops')] <= m

\* C11: every pop returns a node whose f = g + h is minimal in the
\* frontier, and of several frontier nodes with that f the one pushed
\* earliest is popped.
C11_PopMinimalFifo == [][PopsMinimalF /\ PopsEarliestOfTies]_vars

\* C11 as amended: every pop returns a node whose f = g + h is minimal in
\* the frontier; which of several nodes with that f is popped is decided by
\* their positions in the heap, and it need not be the one pushed earliest.
C11_PopMinimal == [][PopsMinimalF]_vars

\* A pop has just left in the frontier an older node with the same f.
C11_Witness ==
    /\ pops # << >>
    /\ \E m \in Range(open_list) : m < LastPop /\ F(m) = F(LastPop)
    /\ \E m \in Range(open_list) : F(m) > F(LastPop)

\* In a run on a valid grid, a step pops a node that is not the goal and
\* whose grid is already in the explored set.
PopsClosedGrid ==
    /\ pops' # pops
    /\ IsValidGrid(heap[InitId])
    /\ ~IsGoal(heap, nodes[pops'[Len(pops')]].state)
    /\ AsTuple(NodeGrid(pops'[Len(pops')])) \in closed_list

\* C12: a popped non-goal node whose grid is already in the explored set is
\* discarded, no successor being generated or pushed; so each grid is
\* expanded at most once.
C12_ClosedPopDiscarded ==
    [][PopsClosedGrid =>
          /\ heap' = heap
          /\ nodes' = nodes
          /\ Range(open_list') \subseteq Range(open_list)]_vars

\* The nodes created by the step.
NewNodes == (Len(nodes) + 1)..Len(nodes')

\* C13: when a node is expanded, a node is pushed for exactly the neighbor
\* grids that are not in the explored set, which by then holds the expanded
\* grid; each pushed node has the expanded node as parent, g = parent.g + 1
\* and h = manhattan_distance of its grid; no node is pushed for a grid of
\* the explored set.
C13_PushesUnexploredNeighbors ==
    [][(pops' # pops /\ pc' = "loop") =>
          /\ closed_list' = closed_list \cup {AsTuple(NodeGrid(pops'[Len(pops')]))}
          /\ {heap'[nodes'[k].state] : k \in NewNodes}
                = LegalMoves(NodeGrid(pops'[Len(pops')])) \ closed_list'
          /\ Cardinality(NewNodes)
                = Cardinality(LegalMoves(NodeGrid(pops'[Len(pops')])) \ closed_list')
          /\ \A k \in NewNodes :
                /\ nodes'[k].parent = pops'[Len(pops')]
                /\ nodes'[k].g = nodes[pops'[Len(pops')]].g + 1
                /\ nodes'[k].h = manhattan_distance(heap'[nodes'[k].state])
          /\ Range(open_list') = (Range(open_list) \ {pops'[Len(pops')]}) \cup NewNodes
    ]_vars

Children(n) == {k \in DOMAIN nodes : nodes[k].parent = n}

\* The last expansion pushed some neighbors and skipped an explored one.
C13_Witness ==
    /\ pc = "loop"
    /\ Len(pops) >= 2
    /\ IsValidGrid(heap[InitId])
    /\ Children(LastPop) # {}
    /\ Cardinality(Children(LastPop)) < Cardinality(LegalMoves(NodeGrid(LastPop)))
    /\ \A k \in Children(LastPop) :
          nodes[k].g = nodes[LastPop].g + 1 /\ NodeGrid(k) \notin closed_list

\* The cell of the goal grid that holds tile v.
GoalCell(v) == CHOOSE c \in Cells : At(goal_state, c[1], c[2]) = v

\* Sum over the cells from k on (row by row) of the distance between the
\* cell and the goal cell of its tile, the blank counting 0.
RECURSIVE GoalDistanceFrom(_, _)
GoalDistanceFrom(state, k) ==
    IF k = 9 THEN 0
    ELSE (IF At(state, k \div 3, k % 3) = 0 THEN 0
          ELSE abs((k \div 3) - GoalCell(At(state, k \div 3, k % 3))[1])
               + abs((k % 3) - GoalCell(At(state, k \div 3, k % 3))[2]))
         + GoalDistanceFrom(state, k + 1)

\* C14: for a valid grid, manhattan_distance is the sum over the eight
\* tiles of |row - goalRow| + |col - goalCol|, the goal cell of a tile being
\* its position in the program's goal grid; the blank contributes 0.
C14_DistanceToGoalGrid ==
    (pc = "grid" /\ IsValidGrid(arg)) =>
        manhattan_distance(arg) = GoalDistanceFrom(arg, 0)

\* C15: consistency: for a valid grid s and every grid t that get_neighbors
\* returns for it, manhattan_distance(s) <= 1 + manhattan_distance(t).
C15_HeuristicConsistent ==
    (pc = "grid" /\ IsValidGrid(arg)) =>
        \A k \in 1..Len(ret) :
            manhattan_distance(arg) <= 1 + manhattan_distance(ret[k])

\* A grid with a neighbor one closer and a neighbor one further.
C15_Witness ==
    /\ pc = "grid"
    /\ IsValidGrid(arg)
    /\ arg \notin {goal_state, TwinGoal}
    /\ \E k \in 1..Len(ret) : manhattan_distance(arg) = 1 + manhattan_distance(ret[k])
    /\ \E k \in 1..Len(ret) : manhattan_distance(ret[k]) = 1 + manhattan_distance(arg)

\* The grid of the node popped last has not been popped before.
FirstPopOfGrid ==
    /\ pops # << >>
    /\ \A k \in 1..(Len(pops) - 1) : NodeGrid(pops[k]) # NodeGrid(LastPop)

\* C16: the first time a grid is popped, the g of the popped node is the
\* least number of legal moves from the initial grid to that grid.  The
\* reference search decides this up to DepthCap moves; beyond, it shows that
\* no path of at most DepthCap moves exists.
C16_FirstPopIsShortest ==
    FirstPopOfGrid =>
        MinMoves(heap[InitId], NodeGrid(LastPop), DepthCap)
            = (IF nodes[LastPop].g <= DepthCap THEN nodes[LastPop].g ELSE -1)

C16_Witness ==
    /\ FirstPopOfGrid
    /\ IsValidGrid(heap[InitId])
    /\ nodes[LastPop].g >= 4
    /\ nodes[LastPop].g <= DepthCap
    /\ MinMoves(heap[InitId], NodeGrid(LastPop), DepthCap) = nodes[LastPop].g
    /\ \E m \in Range(open_list) : nodes[m].g < nodes[LastPop].g

\* Number of parent links from node n to the root, for a parent structure
\* in which every parent is older than its child.
RECURSIVE ParentLinks(_)
ParentLinks(n) == IF nodes[n].parent = 0 THEN 0 ELSE 1 + ParentLinks(nodes[n].parent)

\* C17: every node created has g equal to the number of parent links from
\* it to the root: the root holds the initial grid with g = 0 and no parent,
\* g decreases by 1 along each parent link (the parent structure is a
\* tree), and the returned path has as many grids as the g of the popped
\* goal node plus one.
C17_CostIsTreeDepth ==
    /\ \A n \in DOMAIN nodes :
          /\ nodes[n].parent = 0 <=> n = 1
          /\ n = 1 => nodes[n].state = InitId /\ nodes[n].g = 0
          /\ n # 1 => /\ nodes[n].parent \in 1..(n - 1)
                      /\ nodes[n].g = nodes[nodes[n].parent].g + 1
          /\ (nodes[n].parent \in 0..(n - 1)) => nodes[n].g = ParentLinks(n)
    /\ outcome = "path" => Len(path) = nodes[LastPop].g + 1

C17_Witness ==
    /\ outcome = "path"
    /\ Len(path) = SearchRadius + 1
    /\ nodes[LastPop].g = SearchRadius
    /\ ParentLinks(LastPop) = SearchRadius
    /\ \E n \in DOMAIN nodes : nodes[n].g > SearchRadius /\ ParentLinks(n) = nodes[n].g

\* The grid a with the blank at cell p exchanged with the tile at cell q.
MoveBlank(a, p, q) ==
    [r \in 1..3 |-> [c \in 1..3 |->
        IF <<r - 1, c - 1>> = p THEN At(a, q[1], q[2])
        ELSE IF <<r - 1, c - 1>> = q THEN 0
        ELSE a[r][c]]]

\* The cells below, above, right of and left of cell p, in that order.
Around(p) == << <<p[1] + 1, p[2]>>, <<p[1] - 1, p[2]>>,
                <<p[1], p[2] + 1>>, <<p[1], p[2] - 1>> >>

InGrid(q) == q \in Cells

\* The blank moved down, up, right and left, the moves that leave the grid
\* being skipped.
ExpectedNeighbors(a) ==
    LET targets == SelectSeq(Around(BlankCell(a)), InGrid)
    IN  [k \in 1..Len(targets) |-> MoveBlank(a, BlankCell(a), targets[k])]

\* C18: get_neighbors returns exactly the grids obtained by swapping the
\* blank with the cell below, above, to the right of and to the left of it,
\* skipping the moves that leave the 3x3 bounds, in that order.
C18_NeighborsInFixedOrder ==
    (pc = "grid" /\ IsValidGrid(arg)) => ret = ExpectedNeighbors(arg)

C18_Witness ==
    /\ pc = "grid"
    /\ IsValidGrid(arg)
    /\ arg \notin {goal_state, TwinGoal}
    /\ BlankCell(arg) = <<1, 1>>
    /\ Len(ret) = 4
    /\ BlankCell(ret[1]) = <<2, 1>>
    /\ BlankCell(ret[2]) = <<0, 1>>
    /\ BlankCell(ret[3]) = <<1, 2>>
    /\ BlankCell(ret[4]) = <<1, 0>>

\* C19: within a run, the f = g + h values of the successively popped
\* nodes never decrease.
C19_PoppedFNeverDecreases ==
    \A k \in 1..(Len(pops) - 1) : F(pops[k]) <= F(pops[k + 1])

\* Pops with equal f and pops with growing f have both happened.
C19_Witness ==
    /\ Len(pops) >= 3
    /\ IsValidGrid(heap[InitId])
    /\ \E k \in 1..(Len(pops) - 1) : F(pops[k]) < F(pops[k + 1])
    /\ \E k \in 1..(Len(pops) - 1) : F(pops[k]) = F(pops[k + 1])
    /\ \A k \in 1..(Len(pops) - 1) : F(pops[k]) <= F(pops[k + 1])

====
